---- MODULE Spec2Model ----
(***************************************************************************)
(* Model of the rate-limited execution wrapper of the Job Posting Crew     *)
(* (src/config.py): Config.calculate_delay, wait_between_requests,         *)
(* handle_rate_limit, extract_retry_delay and execute_with_retry.          *)
(*                                                                         *)
(* Delays are Python floats in the source; every configured value is an    *)
(* integral float, so the model uses integers and draws the jitter of      *)
(* random.uniform(0, JITTER_MAX) from integer points of that interval.     *)
(* An error message (str(e)) is a sequence of lexical tokens.              *)
(* An optional value is a sequence of length <= 1: None is <<>>.           *)
(***************************************************************************)
EXTENDS Integers, Sequences, FiniteSets, TLC

VARIABLES
    pc,             \* position inside execute_with_retry
    max_retries,    \* local max_retries after defaulting
    attempt,        \* loop variable of `for attempt in range(max_retries)`
    last_exception, \* local last_exception (None or an exception)
    result,         \* value returned to the caller (None until returned)
    raised,         \* exception raised to the caller (None until raised)
    log,            \* observable events: invocations of func and sleeps
    d_base,         \* calculate_delay study: base_delay argument
    d_jitter,       \* calculate_delay study: value drawn by random.uniform
    d_attempt,      \* calculate_delay study: next attempt index to compute
    d_prev,         \* calculate_delay study: delay of the previous index
    d_delay         \* calculate_delay study: delay of the latest index

vars == <<pc, max_retries, attempt, last_exception, result, raised, log,
          d_base, d_jitter, d_attempt, d_prev, d_delay>>

retryVars == <<pc, max_retries, attempt, last_exception, result, raised, log>>
delayVars == <<d_base, d_jitter, d_attempt, d_prev, d_delay>>

---------------------------------------------------------------------------
\* Class attributes of Config
BASE_REQUEST_DELAY == 5
MAX_REQUEST_DELAY == 120
RATE_LIMIT_DELAY == 180
MAX_RETRIES == 5
EXPONENTIAL_BACKOFF_MULTIPLIER == 2
JITTER_MAX == 2

\* Bounds of the exploration
MaxRetriesArg == 3
MaxAttemptArg == 8

None == <<>>
Some(x) == <<x>>

Min(a, b) == IF a <= b THEN a ELSE b
Max(a, b) == IF a >= b THEN a ELSE b

RECURSIVE Pow(_, _)
Pow(b, e) == IF e <= 0 THEN 1 ELSE b * Pow(b, e - 1)

\* Values random.uniform(0, JITTER_MAX) is sampled at
JitterValues == 0..JITTER_MAX

\* Within a run of execute_with_retry each draw is one of the two end points
RunJitter == {0, JITTER_MAX}

---------------------------------------------------------------------------
\* calculate_delay

calculate_delay_nocap(attempt_, base_delay, jitter) ==
    LET base == IF base_delay = None THEN BASE_REQUEST_DELAY ELSE base_delay[1]
    IN  base * Pow(EXPONENTIAL_BACKOFF_MULTIPLIER, attempt_) + jitter

calculate_delay(attempt_, base_delay, jitter) ==
    LET base == IF base_delay = None THEN BASE_REQUEST_DELAY ELSE base_delay[1]
        delay == Min(base * Pow(EXPONENTIAL_BACKOFF_MULTIPLIER, attempt_),
                     MAX_REQUEST_DELAY)
    IN  delay + jitter

\* time.sleep(delay), as an observable event; arg is the argument of the
\* waiting function that slept
Sleep(kind, arg, delay) ==
    [ev |-> "wait", kind |-> kind, arg |-> arg, delay |-> delay]

wait_between_requests(l, attempt_, jitter) ==
    Append(l, Sleep("backoff", Some(attempt_),
                    calculate_delay(attempt_, None, jitter)))

handle_rate_limit_min(l, retry_delay_seconds) ==
    LET delay == IF retry_delay_seconds # None /\ retry_delay_seconds[1] # 0
                 THEN Min(retry_delay_seconds[1], RATE_LIMIT_DELAY)
                 ELSE RATE_LIMIT_DELAY
    IN  Append(l, Sleep("rate_limit", retry_delay_seconds, delay))

handle_rate_limit(l, retry_delay_seconds) ==
    LET delay == IF retry_delay_seconds # None /\ retry_delay_seconds[1] # 0
                 THEN Max(retry_delay_seconds[1], RATE_LIMIT_DELAY)
                 ELSE RATE_LIMIT_DELAY
    IN  Append(l, Sleep("rate_limit", retry_delay_seconds, delay))

---------------------------------------------------------------------------
\* extract_retry_delay: re.search(r'retry_delay\s*{\s*seconds:\s*(\d+)', msg)

Digits == <<"0", "1", "2", "3", "4", "5", "6", "7", "8", "9">>
IsDigit(tok) == \E n \in 1..10 : Digits[n] = tok
DigitVal(tok) == (CHOOSE n \in 1..10 : Digits[n] = tok) - 1
IsSpace(tok) == tok = " "

Contains(msg, toks) == \E i \in 1..Len(msg) : msg[i] \in toks

\* \s* : the first position >= i that holds no whitespace
RECURSIVE SkipSpace(_, _)
SkipSpace(msg, i) ==
    IF i <= Len(msg) /\ IsSpace(msg[i]) THEN SkipSpace(msg, i + 1) ELSE i

\* (\d+) followed by int(): the value of the maximal digit run from i
RECURSIVE DigitRun(_, _, _)
DigitRun(msg, i, acc) ==
    IF i <= Len(msg) /\ IsDigit(msg[i])
    THEN DigitRun(msg, i + 1, 10 * acc + DigitVal(msg[i]))
    ELSE acc

Tok(msg, i) == IF i >= 1 /\ i <= Len(msg) THEN msg[i] ELSE "<end>"

\* the pattern matched at position i: None, or the captured integer
MatchAt(msg, i) ==
    LET p1 == SkipSpace(msg, i + 1)
        p2 == SkipSpace(msg, p1 + 1)
        p3 == SkipSpace(msg, p2 + 1)
    IN  IF /\ Tok(msg, i) = "retry_delay"
           /\ Tok(msg, p1) = "{"
           /\ Tok(msg, p2) = "seconds:"
           /\ IsDigit(Tok(msg, p3))
        THEN Some(DigitRun(msg, p3, 0))
        ELSE None

re_search(msg) ==
    LET hits == {i \in 1..Len(msg) : MatchAt(msg, i) # None}
    IN  IF hits = {} THEN None
        ELSE MatchAt(msg, CHOOSE i \in hits : \A k \in hits : i <= k)

extract_retry_delay(error_message) ==
    IF /\ Contains(error_message, {"retry_delay"})
       /\ Contains(error_message, {"seconds:", "seconds"})
    THEN re_search(error_message)
    ELSE None

---------------------------------------------------------------------------
\* Inputs

\* max_retries keyword argument: None or an integer
MaxRetriesArgs == {None} \cup {Some(n) : n \in -1..MaxRetriesArg}

\* return values of func
Results == {"r1", "r2"}

Msg_NoHint    == <<"x">>
Msg_Hint45    == <<"x", " ", "retry_delay", " ", "{", " ", "seconds:", " ", "4", "5", " ", "}">>
Msg_Hint300   == <<"retry_delay", "{", "seconds:", "3", "0", "0", "}">>
Msg_Hint0     == <<"retry_delay", "{", "seconds:", " ", "0", "}">>
Msg_NoBrace   == <<"retry_delay", " ", "seconds:", " ", "4", "5">>
Msg_NoDigits  == <<"retry_delay", " ", "{", "seconds:", " ", "x", "9">>
Msg_NoColon   == <<"retry_delay", "{", "seconds", "9", "0", "0">>
Msg_Second    == <<"retry_delay", "x", "retry_delay", "{", "seconds:", "2", "0", "0", "x", "7">>

\* str(e) of the ResourceExhausted errors func may raise
RateLimitMessages ==
    {Msg_NoHint, Msg_Hint45, Msg_Hint300, Msg_Hint0, Msg_NoBrace,
     Msg_NoDigits, Msg_NoColon, Msg_Second}

\* str(e) of the other errors func may raise
OtherMessages == {Msg_NoHint, Msg_Hint300}

\* an exception object: its class, its message and the attempt that raised it
Exc(type, msg, at) == [type |-> type, msg |-> msg, attempt |-> at]

Invoked(at, outcome, value) ==
    [ev |-> "invoke", attempt |-> at, outcome |-> outcome, value |-> value]

---------------------------------------------------------------------------
\* execute_with_retry

\* for attempt in range(max_retries)
InRange_inclusive(attempt_, max_retries_) == attempt_ <= max_retries_

InRange(attempt_, max_retries_) == attempt_ < max_retries_

\* if attempt < max_retries - 1
NotLastAttempt_always(attempt_, max_retries_) == attempt_ < max_retries_

NotLastAttempt(attempt_, max_retries_) == attempt_ < max_retries_ - 1

Init ==
    /\ pc = "idle"
    /\ max_retries = 0
    /\ attempt = 0
    /\ last_exception = None
    /\ result = None
    /\ raised = None
    /\ log = <<>>
    /\ d_base = None
    /\ d_jitter = 0
    /\ d_attempt = 0
    /\ d_prev = None
    /\ d_delay = None

\* entry: default max_retries, last_exception = None
Call(mr) ==
    /\ pc = "idle"
    /\ max_retries' = IF mr = None THEN MAX_RETRIES ELSE mr[1]
    /\ last_exception' = None
    /\ attempt' = 0
    /\ pc' = "loop"
    /\ UNCHANGED <<result, raised, log>>
    /\ UNCHANGED delayVars

\* the for statement: next iteration, or fall out of the loop
ForLoop ==
    /\ pc = "loop"
    /\ pc' = IF InRange(attempt, max_retries) THEN "try" ELSE "after_loop"
    /\ UNCHANGED <<max_retries, attempt, last_exception, result, raised, log>>
    /\ UNCHANGED delayVars

TryEnter_always(jitter) ==
    /\ pc = "try"
    /\ log' = wait_between_requests(log, attempt, jitter)
    /\ pc' = "invoke"
    /\ UNCHANGED <<max_retries, attempt, last_exception, result, raised>>
    /\ UNCHANGED delayVars

TryEnter_skipAfterRateLimit(jitter) ==
    /\ pc = "try"
    /\ log' = IF attempt > 0 /\ log[Len(log)].kind # "rate_limit"
              THEN wait_between_requests(log, attempt, jitter)
              ELSE log
    /\ pc' = "invoke"
    /\ UNCHANGED <<max_retries, attempt, last_exception, result, raised>>
    /\ UNCHANGED delayVars

\* try: if attempt > 0: Config.wait_between_requests(attempt)
TryEnter(jitter) ==
    /\ pc = "try"
    /\ log' = IF attempt > 0
              THEN wait_between_requests(log, attempt, jitter)
              ELSE log
    /\ pc' = "invoke"
    /\ UNCHANGED <<max_retries, attempt, last_exception, result, raised>>
    /\ UNCHANGED delayVars

InvokeReturns_continue(r) ==
    /\ pc = "invoke"
    /\ log' = Append(log, Invoked(attempt, "ok", Some(r)))
    /\ result' = Some(r)
    /\ attempt' = attempt + 1
    /\ pc' = IF NotLastAttempt(attempt, max_retries) THEN "loop" ELSE "returned"
    /\ UNCHANGED <<max_retries, last_exception, raised>>
    /\ UNCHANGED delayVars

\* return func(*args, **kwargs): func returns r
InvokeReturns(r) ==
    /\ pc = "invoke"
    /\ log' = Append(log, Invoked(attempt, "ok", Some(r)))
    /\ result' = Some(r)
    /\ pc' = "returned"
    /\ UNCHANGED <<max_retries, attempt, last_exception, raised>>
    /\ UNCHANGED delayVars

InvokeResourceExhausted_noRateLimitWait(msg) ==
    /\ pc = "invoke"
    /\ last_exception' = Some(Exc("ResourceExhausted", msg, attempt))
    /\ log' = Append(log, Invoked(attempt, "ResourceExhausted", None))
    /\ attempt' = attempt + 1
    /\ pc' = "loop"
    /\ UNCHANGED <<max_retries, result, raised>>
    /\ UNCHANGED delayVars

\* func raises ResourceExhausted with message msg; except ResourceExhausted
InvokeResourceExhausted(msg) ==
    /\ pc = "invoke"
    /\ last_exception' = Some(Exc("ResourceExhausted", msg, attempt))
    /\ LET failed == Append(log, Invoked(attempt, "ResourceExhausted", None))
           suggested_delay == extract_retry_delay(msg)
       IN  log' = IF NotLastAttempt(attempt, max_retries)
                  THEN handle_rate_limit(failed, suggested_delay)
                  ELSE failed
    /\ attempt' = attempt + 1
    /\ pc' = "loop"
    /\ UNCHANGED <<max_retries, result, raised>>
    /\ UNCHANGED delayVars

InvokeException_propagate(msg, jitter) ==
    /\ pc = "invoke"
    /\ last_exception' = Some(Exc("Exception", msg, attempt))
    /\ log' = Append(log, Invoked(attempt, "Exception", None))
    /\ raised' = Some(Exc("Exception", msg, attempt))
    /\ pc' = "raised"
    /\ UNCHANGED <<max_retries, attempt, result>>
    /\ UNCHANGED delayVars

InvokeException_noPostWait(msg, jitter) ==
    /\ pc = "invoke"
    /\ last_exception' = Some(Exc("Exception", msg, attempt))
    /\ log' = Append(log, Invoked(attempt, "Exception", None))
    /\ IF NotLastAttempt(attempt, max_retries)
       THEN attempt' = attempt + 1 /\ pc' = "loop"
       ELSE attempt' = attempt /\ pc' = "after_loop"
    /\ UNCHANGED <<max_retries, result, raised>>
    /\ UNCHANGED delayVars

\* func raises any other Exception with message msg; except Exception
InvokeException(msg, jitter) ==
    /\ pc = "invoke"
    /\ last_exception' = Some(Exc("Exception", msg, attempt))
    /\ LET failed == Append(log, Invoked(attempt, "Exception", None))
       IN  IF NotLastAttempt(attempt, max_retries)
           THEN /\ log' = wait_between_requests(failed, attempt, jitter)
                /\ attempt' = attempt + 1
                /\ pc' = "loop"
           ELSE /\ log' = failed
                /\ attempt' = attempt
                /\ pc' = "after_loop"
    /\ UNCHANGED <<max_retries, result, raised>>
    /\ UNCHANGED delayVars

RaiseAfterLoop_returnNone ==
    /\ pc = "after_loop"
    /\ IF last_exception # None
       THEN raised' = last_exception /\ result' = result /\ pc' = "raised"
       ELSE raised' = raised /\ result' = Some("None") /\ pc' = "returned"
    /\ UNCHANGED <<max_retries, attempt, last_exception, log>>
    /\ UNCHANGED delayVars

\* after the loop: raise last_exception, or the generic Exception
RaiseAfterLoop ==
    /\ pc = "after_loop"
    /\ raised' = IF last_exception # None
                 THEN last_exception
                 ELSE Some(Exc("Exception", <<"Function failed after", "attempts">>, -1))
    /\ pc' = "raised"
    /\ UNCHANGED <<max_retries, attempt, last_exception, result, log>>
    /\ UNCHANGED delayVars

Next ==
    \/ \E mr \in MaxRetriesArgs : Call(mr)
    \/ ForLoop
    \/ \E j \in RunJitter : TryEnter(j)
    \/ \E r \in Results : InvokeReturns(r)
    \/ \E m \in RateLimitMessages : InvokeResourceExhausted(m)
    \/ \E m \in OtherMessages : \E j \in RunJitter : InvokeException(m, j)
    \/ RaiseAfterLoop

Spec == Init /\ [][Next]_vars

\* A started call keeps running: the body is sequential code, every sleep is
\* finite and every invocation of func returns or raises
Step ==
    \/ ForLoop
    \/ \E j \in RunJitter : TryEnter(j)
    \/ \E r \in Results : InvokeReturns(r)
    \/ \E m \in RateLimitMessages : InvokeResourceExhausted(m)
    \/ \E m \in OtherMessages : \E j \in RunJitter : InvokeException(m, j)
    \/ RaiseAfterLoop

FairSpec == Init /\ [][Next]_vars /\ WF_vars(Step)

---------------------------------------------------------------------------
\* calculate_delay over successive attempt indices, jitter held fixed

BaseDelays == {None, Some(0), Some(1), Some(7), Some(200)}

InitDelay ==
    /\ pc = "idle"
    /\ max_retries = 0
    /\ attempt = 0
    /\ last_exception = None
    /\ result = None
    /\ raised = None
    /\ log = <<>>
    /\ d_base \in BaseDelays
    /\ d_jitter \in JitterValues
    /\ d_attempt = 0
    /\ d_prev = None
    /\ d_delay = None

CalcDelay ==
    /\ d_attempt <= MaxAttemptArg
    /\ d_delay' = Some(calculate_delay(d_attempt, d_base, d_jitter))
    /\ d_prev' = d_delay
    /\ d_attempt' = d_attempt + 1
    /\ UNCHANGED <<d_base, d_jitter>>
    /\ UNCHANGED retryVars

NextDelay == CalcDelay

SpecDelay == InitDelay /\ [][NextDelay]_vars

---------------------------------------------------------------------------
\* Observations on the event log

IsInvoke(e) == e.ev = "invoke"
IsWait(e) == e.ev = "wait"
IsFailure(e) == IsInvoke(e) /\ e.outcome # "ok"

Invocations == SelectSeq(log, IsInvoke)
Waits == SelectSeq(log, IsWait)
InvokePos == {p \in 1..Len(log) : IsInvoke(log[p])}

\* p and q hold consecutive invocations of func
Consecutive(p, q) ==
    /\ p \in InvokePos /\ q \in InvokePos /\ p < q
    /\ \A k \in InvokePos : ~(p < k /\ k < q)

\* the durations calculate_delay(i) can produce with the default base
BackoffDelays(i) ==
    {Min(BASE_REQUEST_DELAY * Pow(EXPONENTIAL_BACKOFF_MULTIPLIER, i),
         MAX_REQUEST_DELAY) + j : j \in 0..JITTER_MAX}

IsBackoffFor(e, i) ==
    IsWait(e) /\ e.kind = "backoff" /\ e.arg = Some(i) /\ e.delay \in BackoffDelays(i)

IsRateLimitWait(e) == IsWait(e) /\ e.kind = "rate_limit"

Outcomes == [p \in 1..Len(Invocations) |-> Invocations[p].outcome]

AllFailed == \A p \in InvokePos : IsFailure(log[p])
AllGeneric == \A p \in InvokePos : log[p].outcome = "Exception"

---------------------------------------------------------------------------
\* C1: for max_retries >= 1, a call whose every invocation fails (rate-limit
\* or generic, in any mix) has invoked func exactly max_retries times when it
\* ends in failure, and never more than max_retries times along the way.
C1_RetryBudgetExact ==
    max_retries >= 1 =>
        /\ Len(Invocations) <= max_retries
        /\ pc \in {"after_loop", "raised"} =>
               /\ Len(Invocations) = max_retries
               /\ AllFailed
               /\ \A p \in 1..max_retries : Invocations[p].attempt = p - 1

C1_Witness ==
    /\ pc = "raised"
    /\ max_retries = 3
    /\ Outcomes = <<"ResourceExhausted", "Exception", "ResourceExhausted">>

\* C2: when func fails on attempts 0..k-1 and succeeds on attempt k, it has
\* been invoked exactly k+1 times, the call returns that attempt's value, and
\* the successful invocation is the last event: no wait follows it.
C2_EarlySuccess ==
    /\ pc = "returned" =>
           LET last == log[Len(log)]
               k == last.attempt
           IN  /\ IsInvoke(last) /\ last.outcome = "ok"
               /\ k < max_retries
               /\ Len(Invocations) = k + 1
               /\ \A p \in 1..k : IsFailure(Invocations[p])
               /\ result = last.value
               /\ raised = None
    /\ \A p \in InvokePos : log[p].outcome = "ok" => p = Len(log) /\ pc = "returned"

C2_Witness ==
    /\ pc = "returned"
    /\ Outcomes = <<"Exception", "ResourceExhausted", "ok">>
    /\ result = Some("r2")

\* C3: an exception reaches the caller only after all max_retries attempts
\* have failed; failures of earlier attempts are absorbed, and the exception
\* raised is the one of the last attempt.
C3_OnlyExhaustionPropagates ==
    /\ pc # "raised" => raised = None
    /\ (pc = "raised" /\ max_retries >= 1) =>
           /\ Len(Invocations) = max_retries
           /\ AllFailed
           /\ raised # None
           /\ raised = last_exception
           /\ raised[1].attempt = max_retries - 1
           /\ raised[1].type = Invocations[max_retries].outcome

C3_Witness ==
    /\ pc = "raised"
    /\ max_retries = 3
    /\ Outcomes = <<"Exception", "ResourceExhausted", "Exception">>
    /\ raised = Some(Exc("Exception", Msg_Hint300, 2))

\* C4 as stated: after a generic failure on a non-final attempt the only
\* wait before the next invocation is the pre-attempt backoff, so a call
\* whose every invocation raises a generic error performs max_retries - 1
\* waits (1 wait for max_retries = 2).
C4_Original ==
    (pc = "raised" /\ max_retries >= 1 /\ AllGeneric) =>
        Len(Waits) = max_retries - 1

\* C4 amended: after a generic failure of attempt i that is not the final
\* one, two backoff waits precede the next invocation: calculate_delay(i)
\* right after the failure, then the pre-attempt calculate_delay(i+1); a call
\* whose every invocation raises a generic error performs max_retries
\* invocations and 2 * (max_retries - 1) waits.
C4_GenericFailureWaitsTwice ==
    /\ \A p \in InvokePos :
           (log[p].outcome = "Exception" /\ NotLastAttempt(log[p].attempt, max_retries)) =>
               /\ p < Len(log)
               /\ IsBackoffFor(log[p + 1], log[p].attempt)
               /\ p + 1 < Len(log) => IsBackoffFor(log[p + 2], log[p].attempt + 1)
               /\ p + 2 < Len(log) =>
                      IsInvoke(log[p + 3]) /\ log[p + 3].attempt = log[p].attempt + 1
    /\ (pc = "raised" /\ max_retries >= 1 /\ AllGeneric) =>
           /\ Len(Invocations) = max_retries
           /\ Len(Waits) = 2 * (max_retries - 1)

C4_Witness ==
    /\ pc = "raised"
    /\ max_retries = 2
    /\ Outcomes = <<"Exception", "Exception">>
    /\ Len(Waits) = 2
    /\ IsBackoffFor(log[2], 0)
    /\ IsBackoffFor(log[3], 1)

\* C5: the failure of the final attempt (index max_retries - 1), rate-limited
\* or generic, is followed by no wait: it stays the last event until the
\* exception is raised to the caller.
C5_FinalAttemptNoWait ==
    /\ \A p \in InvokePos :
           (IsFailure(log[p]) /\ log[p].attempt = max_retries - 1) => p = Len(log)
    /\ (pc \in {"after_loop", "raised"} /\ max_retries >= 1) =>
           /\ IsFailure(log[Len(log)])
           /\ log[Len(log)].attempt = max_retries - 1

C5_Witness ==
    /\ pc = "raised"
    /\ max_retries = 2
    /\ Outcomes = <<"Exception", "ResourceExhausted">>
    /\ raised[1].type = "ResourceExhausted"

\* C6: after a rate-limited failure on a non-final attempt the rate-limit
\* wait follows at once, and the next invocation is preceded by exactly two
\* waits: that rate-limit wait, then the backoff of the next attempt's index.
C6_RateLimitWaitPlusBackoff ==
    \A p \in InvokePos :
        (log[p].outcome = "ResourceExhausted"
            /\ NotLastAttempt(log[p].attempt, max_retries)) =>
            /\ p < Len(log)
            /\ IsRateLimitWait(log[p + 1])
            /\ p + 1 < Len(log) => IsBackoffFor(log[p + 2], log[p].attempt + 1)
            /\ p + 2 < Len(log) =>
                   IsInvoke(log[p + 3]) /\ log[p + 3].attempt = log[p].attempt + 1

C6_Witness ==
    /\ Len(log) >= 4
    /\ log[1].outcome = "ResourceExhausted"
    /\ IsRateLimitWait(log[2])
    /\ IsBackoffFor(log[3], 1)
    /\ IsInvoke(log[4])

\* The scenario of C7: max_retries = 3, rate-limited without a hint on the
\* first two attempts, success on the third.
C7_Scenario ==
    /\ pc = "returned"
    /\ max_retries = 3
    /\ Outcomes = <<"ResourceExhausted", "ResourceExhausted", "ok">>
    /\ \A p \in 1..Len(log) : IsRateLimitWait(log[p]) => log[p].arg = None

\* C7 as stated: in the scenario the rate-limit wait replaces the standard
\* backoff, so the run has 3 invocations and exactly 2 waits, both
\* rate-limit waits.
C7_Original ==
    C7_Scenario =>
        /\ Len(Invocations) = 3
        /\ Len(Waits) = 2
        /\ \A p \in 1..Len(Waits) : IsRateLimitWait(Waits[p])
        /\ result # None

\* C7 amended: in the scenario the run has 3 invocations and exactly 4
\* waits: after each rate-limited failure a rate-limit wait of
\* RATE_LIMIT_DELAY and then the standard backoff of the next attempt's
\* index; the third invocation's value is returned.
C7_RateLimitedTwiceThenSuccess ==
    C7_Scenario =>
        /\ Len(log) = 7
        /\ IsRateLimitWait(log[2]) /\ log[2].delay = RATE_LIMIT_DELAY
        /\ IsBackoffFor(log[3], 1)
        /\ IsRateLimitWait(log[5]) /\ log[5].delay = RATE_LIMIT_DELAY
        /\ IsBackoffFor(log[6], 2)
        /\ result = log[7].value

C7_Witness ==
    /\ C7_Scenario
    /\ Len(Waits) = 4
    /\ result = Some("r1")

\* C8: the wait after a rate-limited failure on a non-final attempt lasts
\* max(hint, RATE_LIMIT_DELAY) when the message carries a parseable
\* retry_delay hint (45 gives 180, 300 gives 300, beyond MAX_REQUEST_DELAY)
\* and RATE_LIMIT_DELAY when it carries none; an unparseable hint never
\* becomes the outcome of the call.
C8_RateLimitWaitDuration ==
    /\ (Len(log) > 0 /\ IsRateLimitWait(log[Len(log)])) =>
           LET w == log[Len(log)]
               msg == last_exception[1].msg
               hint == extract_retry_delay(msg)
           IN  /\ last_exception[1].type = "ResourceExhausted"
               /\ w.arg = hint
               /\ hint # None => w.delay = Max(hint[1], RATE_LIMIT_DELAY)
               /\ hint = None => w.delay = RATE_LIMIT_DELAY
               /\ msg = Msg_Hint45 => w.delay = 180
               /\ msg = Msg_Hint300 => w.delay = 300
               /\ msg = Msg_Second => w.delay = 200
               /\ msg \in {Msg_NoHint, Msg_NoBrace, Msg_NoDigits, Msg_NoColon, Msg_Hint0}
                      => w.delay = RATE_LIMIT_DELAY
    /\ \A p \in 1..Len(log) : IsRateLimitWait(log[p]) =>
           /\ log[p].delay >= RATE_LIMIT_DELAY
           /\ log[p].delay = IF log[p].arg = None THEN RATE_LIMIT_DELAY
                             ELSE Max(log[p].arg[1], RATE_LIMIT_DELAY)
    /\ raised # None =>
           \/ raised = last_exception /\ raised[1].attempt >= 0
           \/ last_exception = None /\ Len(Invocations) = 0

C8_Witness ==
    /\ Len(log) = 8
    /\ IsRateLimitWait(log[2]) /\ log[2].arg = Some(45) /\ log[2].delay = 180
    /\ IsRateLimitWait(log[5]) /\ log[5].arg = None /\ log[5].delay = 180
    /\ IsRateLimitWait(log[8]) /\ log[8].delay = 300
    /\ last_exception = Some(Exc("ResourceExhausted", Msg_Hint300, 2))

\* C9: the invocation of attempt 0 is preceded by no wait, and every
\* invocation of an attempt i > 0 is immediately preceded by a backoff wait
\* of duration calculate_delay(i).
C9_PreAttemptBackoff ==
    \A p \in InvokePos :
        /\ log[p].attempt = 0 => p = 1
        /\ log[p].attempt > 0 => p > 1 /\ IsBackoffFor(log[p - 1], log[p].attempt)

C9_Witness ==
    /\ Len(Invocations) = 3
    /\ log[1].attempt = 0
    /\ IsBackoffFor(log[3], 1) /\ IsInvoke(log[4])
    /\ IsBackoffFor(log[6], 2) /\ IsInvoke(log[7])

\* C10: with the jitter held fixed (in particular 0), calculate_delay is
\* non-decreasing in the attempt index; with jitter 0 it is
\* min(base * multiplier^i, MAX_REQUEST_DELAY); for every index and every
\* jitter in [0, JITTER_MAX] it is at most MAX_REQUEST_DELAY + JITTER_MAX.
C10_BackoffMonotoneAndCapped ==
    d_delay # None =>
        LET i == d_attempt - 1
            base == IF d_base = None THEN BASE_REQUEST_DELAY ELSE d_base[1]
        IN  /\ d_delay[1] <= MAX_REQUEST_DELAY + JITTER_MAX
            /\ d_prev # None => d_delay[1] >= d_prev[1]
            /\ d_jitter = 0 =>
                   d_delay[1] = Min(base * Pow(EXPONENTIAL_BACKOFF_MULTIPLIER, i),
                                    MAX_REQUEST_DELAY)
            /\ d_base = None =>
                   d_delay[1] - d_jitter = IF i >= 5 THEN 120 ELSE 5 * Pow(2, i)

C10_Witness ==
    /\ d_base = None
    /\ d_jitter = 0
    /\ d_attempt = 6
    /\ d_prev = Some(80)
    /\ d_delay = Some(120)

\* The generic failure raised when no attempt produced an error
GenericFailure == Exc("Exception", <<"Function failed after", "attempts">>, -1)

\* The call has ended: it returned, or it raised
Ended == pc \in {"returned", "raised"}

\* How a call may end: with the value of a successful invocation, or with an
\* exception; the generic one when no attempt produced an error
C11_EndsWell ==
    /\ ~(result # None /\ raised # None)
    /\ pc = "returned" =>
           /\ result # None /\ raised = None
           /\ Len(log) > 0
           /\ IsInvoke(log[Len(log)]) /\ log[Len(log)].outcome = "ok"
           /\ result = log[Len(log)].value
    /\ pc = "raised" => result = None /\ raised # None
    /\ pc # "returned" => result = None
    /\ (pc = "raised" /\ ~(\E p \in InvokePos : IsFailure(log[p]))) =>
           /\ raised = Some(GenericFailure)
           /\ max_retries <= 0 /\ Len(log) = 0
    /\ (pc \in {"after_loop", "raised"} /\ max_retries <= 0) => Len(log) = 0
    /\ (pc = "raised" /\ max_retries <= 0) => raised = Some(GenericFailure)

\* C11: given that every invocation of func returns or raises, a call started
\* at attempt 0 eventually ends, and it ends in exactly one of two ways: it
\* returns the value of a successful invocation, or it raises; it never
\* returns without such a value, and with no error produced at all
\* (max_retries <= 0, no invocation) it raises the generic failure.
C11_TerminatesReturnOrRaise ==
    /\ [](C11_EndsWell)
    /\ (pc = "loop" /\ attempt = 0) ~> Ended
    /\ [][Ended => (pc' = pc /\ result' = result /\ raised' = raised)]_vars

C11_Witness ==
    /\ pc = "raised"
    /\ max_retries <= 0
    /\ Len(log) = 0
    /\ raised = Some(GenericFailure)
    /\ result = None

====
